---- MODULE Spec2Model ----
(***************************************************************************)
(* gqless-hooks: the fetch-policy engine of useQuery, the fetch executor   *)
(* (useFetchCallback), the per-consumer state reducer and the keyed        *)
(* SharedCache with its subscribers.                                       *)
(*                                                                         *)
(* JavaScript values are modelled by strings: "undefined", "null", the     *)
(* strings "a" and "b", and two distinct object references "o1" and "o2"   *)
(* that serialise to the same JSON text.                                   *)
(* The accessor library (gqless Client) is a collaborator: a client holds  *)
(* either the resolved value of the selection or nothing ("absent"); a     *)
(* selector read of an unresolved client returns null and leaves pending   *)
(* accessors, for which the client's scheduler later calls the fetcher.    *)
(***************************************************************************)
EXTENDS Integers, Sequences, FiniteSets, TLC

\* ---------------------------------------------------------------- bounds
MaxRuns == 2
MaxClients == 2
MaxNet == 2
MaxWrites == 1
MaxWarnings == 3
MaxMore == 2
MaxPollRuns == 3
MaxPollClients == 3
MaxSubs == 3
MaxDisposals == 2

Consumers == {1, 2}
Keys == {"k1"}
AllKeys == Keys \cup {"k2"}
NoKey == "none"
NoFn == 0
HookIds == {"h1", "h2", "h3"}
NoId == "none"
NoHook == 0

Policies == {"cache-first", "cache-and-network", "network-only", "cache-only", "no-cache"}
FetchStates == {"waiting", "loading", "error", "done"}

UNDEF == "undefined"
NULL == "null"
ABSENT == "absent"
ServerValues == {"a", "o1"}
WriteValues == {UNDEF, NULL, "o2"}
Updaters == {"concat"}
NoErrors == "none"
GqlErrors == "errs"
Outcomes == {"ok", "errors"}

\* ------------------------------------------------------- value operators
\* JavaScript truthiness of a value
Truthy(v) == v \notin {UNDEF, NULL}

stringifyIfNeeded(data) ==
  IF data \in {UNDEF, NULL} THEN "<null>"
  ELSE IF data \in {"o1", "o2"} THEN "{json}"
  ELSE data

\* the updater functions a caller may hand to setCacheData
ApplyUpdater(f, prev) ==
  IF f = "concat" /\ prev = "a" THEN "b" ELSE "a"

\* ------------------------------------------------------------ the reducer
lazyInitialState ==
  [fetchState |-> "waiting", data |-> UNDEF, called |-> FALSE, errors |-> NoErrors]

earlyInitialState ==
  [fetchState |-> "loading", data |-> UNDEF, called |-> TRUE, errors |-> NoErrors]

\* a variant of the loading case that drops the data
LoadingStateCleared(reducerState) ==
  [fetchState |-> "loading", data |-> UNDEF, called |-> TRUE, errors |-> NoErrors]

\* a variant of the loading case that carries the errors over
LoadingStateKeepsErrors(reducerState) ==
  [fetchState |-> "loading", data |-> reducerState.data, called |-> TRUE,
   errors |-> reducerState.errors]

\* the state the loading case returns
LoadingState(reducerState) ==
  [fetchState |-> "loading", data |-> reducerState.data, called |-> TRUE,
   errors |-> NoErrors]

\* a variant of the setData case that marks the state called
SetDataStateCalled(reducerState, payload) ==
  [reducerState EXCEPT !.data = payload, !.called = TRUE]

\* the state the setData case returns
SetDataState(reducerState, payload) == [reducerState EXCEPT !.data = payload]

\* a variant of the done case that never leaves the error state
DoneKeepsStateInError(reducerState, payload) == reducerState.fetchState = "error"

\* whether the done case returns the reducer state it was given
DoneKeepsState(reducerState, payload) ==
  /\ reducerState.fetchState = "error"
  /\ stringifyIfNeeded(payload) = stringifyIfNeeded(reducerState.data)

\* StateReducer returns the new reducer state (st) and the mutated stateRef (ref)
StateReducer(reducerState, ref, type, payload) ==
  LET ref1 == IF ~ref.called THEN [ref EXCEPT !.called = TRUE] ELSE ref IN
  CASE type = "done" ->
         IF DoneKeepsState(reducerState, payload)
         THEN [st |-> reducerState, ref |-> ref1]
         ELSE [st |-> [fetchState |-> "done", data |-> payload, called |-> TRUE,
                       errors |-> NoErrors],
               ref |-> [ref1 EXCEPT !.data = payload, !.fetchState = "done"]]
    [] type = "loading" ->
         [st |-> LoadingState(reducerState),
          ref |-> [ref1 EXCEPT !.fetchState = "loading"]]
    [] type = "error" ->
         [st |-> [fetchState |-> "error", data |-> reducerState.data,
                  called |-> TRUE, errors |-> payload],
          ref |-> [ref1 EXCEPT !.fetchState = "error", !.errors = payload]]
    [] type = "setData" ->
         [st |-> SetDataState(reducerState, payload),
          ref |-> [ref1 EXCEPT !.data = payload]]

\* ------------------------------------------------------------- the state
VARIABLES
  phase,             \* per consumer: "unmounted", "rendered", "mounted", "dismounted"
  cfg,               \* per consumer: the options the hook is called with
  state,             \* per consumer: the reducer state
  stateRef,          \* per consumer: stateRef.current, the live snapshot
  optPolicy,         \* per consumer: optionsRef.current.fetchPolicy
  isFetching,        \* per consumer: isFetchingRef.current
  clients,           \* per consumer: the gqless clients created so far; the last is queryClientRef.current
  runs,              \* per consumer: the queryCallback invocations suspended at their await
  cacheData,         \* SharedCache.cacheData
  cacheSubscribers,  \* SharedCache.cacheSubscribers (an absent entry is the empty set)
  hist,              \* per consumer: invocations started, transport calls issued, no timeout or error so far
  nWrites,           \* number of imperative setCacheData calls so far
  ev,                \* the last operation and what it did
  hooksPool,         \* SharedCache.hooksPool: the consumer registered under each hook id
  hookId,            \* per consumer: the hook id its pool effect registered
  warnings,          \* number of duplicate-id diagnostics printed
  production,        \* whether NODE_ENV is 'production'
  more,              \* per consumer: its fetchMore calls, the last one in detail
  pollInterval,      \* per consumer: the pollInterval option of its last render (0 when unset)
  timer,             \* per consumer: whether the interval timer of the polling effect is set
  pollClients,       \* per consumer: the clients built by invocations that a tick started
  skip,              \* per consumer: optionsRef.current.skip
  rendered,          \* per consumer: the state its last committed render showed
  completed,         \* per consumer: the onCompleted calls so far and the data of the last
  subSets,           \* the Set objects subscribeCache has created, in order of creation
  subCurrent,        \* per key: the Set object SharedCache.cacheSubscribers holds (0: none)
  subHeld            \* the disposers subscribeCache has returned: function, key, Set object, calls

\* the hooks pool
poolVars == <<hooksPool, hookId, warnings, production>>

\* the state the policy engine and the shared cache leave alone
\* the polling effect
pollVars == <<pollInterval, timer, pollClients>>

\* the onCompleted effect
completedVars == <<rendered, completed>>

\* the Set objects behind SharedCache.cacheSubscribers
subVars == <<subSets, subCurrent, subHeld>>

extra == <<poolVars, more, pollVars, skip, completedVars, subVars>>

vars == <<phase, cfg, state, stateRef, optPolicy, isFetching, clients, runs,
          cacheData, cacheSubscribers, hist, nWrites, ev, extra>>

\* a gqless client: the resolved value of the selection (or ABSENT), the
\* policies of the invocations whose reads left accessors pending, whether the
\* scheduler has called the fetcher for them, whether that call reached the
\* transport, and whether some invocation registered on onFetched
NewClient ==
  [data |-> ABSENT, pending |-> {}, inflight |-> FALSE, net |-> FALSE, watched |-> FALSE]

NoEv ==
  [op |-> "other", c |-> 0, key |-> NoKey, val |-> UNDEF, setter |-> NoFn,
   notified |-> {}, performed |-> FALSE, settled |-> "none"]

\* no render of the consumer has been committed yet
NoRender == [data |-> UNDEF, fetchState |-> "none", called |-> FALSE, errors |-> NoErrors]

\* onCompleted has not been called
NoCompleted == [n |-> 0, data |-> UNDEF]

NoHist == [runs |-> 0, net |-> 0, clean |-> TRUE]

\* no fetchMore call so far
NoMore ==
  [stage |-> "idle", n |-> 0, notifyLoading |-> TRUE, updateQuery |-> "none",
   previous |-> UNDEF, wasDone |-> FALSE, args |-> <<>>, resolved |-> UNDEF]

\* the mutable program state as one record, threaded through the operations
World ==
  [state |-> state, stateRef |-> stateRef, optPolicy |-> optPolicy,
   isFetching |-> isFetching, clients |-> clients, runs |-> runs,
   cacheData |-> cacheData, cacheSubscribers |-> cacheSubscribers,
   hist |-> hist, notified |-> {}]

\* dispatch on consumer c: React hands the action to StateReducer
Dispatch(w, c, type, payload) ==
  LET r == StateReducer(w.state[c], w.stateRef[c], type, payload)
  IN [w EXCEPT !.state[c] = r.st, !.stateRef[c] = r.ref]

\* ------------------------------------------------------------ SharedCache
\* a variant that never dispatches
cacheSubscribeFnSilent(w, c, data) == [w EXCEPT !.notified = @ \cup {c}]

\* the subscriber function a consumer registers (useSubscribeCache effect)
cacheSubscribeFn(w, c, data) ==
  LET w1 == [w EXCEPT !.notified = @ \cup {c}] IN
  IF w1.stateRef[c].fetchState = "done"
     /\ stringifyIfNeeded(data) # stringifyIfNeeded(w1.stateRef[c].data)
  THEN Dispatch(w1, c, "done", data)
  ELSE w1

RECURSIVE NotifyAll(_, _, _)
NotifyAll(w, fns, data) ==
  IF fns = {} THEN w
  ELSE LET f == CHOOSE x \in fns : TRUE
       IN NotifyAll(cacheSubscribeFn(w, f, data), fns \ {f}, data)

\* a variant that excludes nobody
WriteTargetsAll(subscribers, setter) == subscribers

\* the subscribers a write with this setter invokes
WriteTargets(subscribers, setter) == {f \in subscribers : f # setter}

\* a variant that takes no write for a repetition
SameStoredNever(stored, data) == FALSE

\* whether a write repeats the stored value: SharedCache.cacheData[cacheKey] === data
SameStored(stored, data) == stored = data

SharedCache_setCacheData(w, cacheKey, data, setter) ==
  IF SameStored(w.cacheData[cacheKey], data) THEN w
  ELSE NotifyAll([w EXCEPT !.cacheData[cacheKey] = data],
                 WriteTargets(w.cacheSubscribers[cacheKey], setter), data)

\* whether subscribeCache replays the stored value to the new subscriber
ReplaysOnSubscribe(subscribers, stored) == subscribers # {} /\ Truthy(stored)

SharedCache_subscribeCache(w, cacheKey, fn) ==
  LET w1 == IF ReplaysOnSubscribe(w.cacheSubscribers[cacheKey], w.cacheData[cacheKey])
            THEN cacheSubscribeFn(w, fn, w.cacheData[cacheKey])
            ELSE w
  IN [w1 EXCEPT !.cacheSubscribers[cacheKey] = @ \cup {fn}]

\* a variant of the disposer that removes nothing
SharedCache_unsubscribeNever(w, cacheKey, fn) == w

\* the disposer subscribeCache returns
SharedCache_unsubscribe(w, cacheKey, fn) ==
  [w EXCEPT !.cacheSubscribers[cacheKey] = @ \ {fn}]

\* a variant that also drops the key's subscribers
SharedCache_clearCacheKeyAll(w, cacheKey) ==
  [w EXCEPT !.cacheData[cacheKey] = UNDEF, !.cacheSubscribers[cacheKey] = {}]

SharedCache_clearCacheKey(w, cacheKey) ==
  [w EXCEPT !.cacheData[cacheKey] = UNDEF]

\* the exported setCacheData: a value, or a function of the previous value
setCacheData(w, cacheKey, isFn, arg) ==
  IF isFn
  THEN SharedCache_setCacheData(w, cacheKey, ApplyUpdater(arg, w.cacheData[cacheKey]), NoFn)
  ELSE SharedCache_setCacheData(w, cacheKey, arg, NoFn)

\* -------------------------------------------------- the fetch-policy engine
\* the key a consumer writes through to, and the subscriber function it
\* excludes (cacheSubscribeFnRef.current, set by the subscription effect)
KeyOf(c) == cfg[c].key
FnRefOf(c) ==
  IF phase[c] = "mounted" /\ cfg[c].key # NoKey /\ cfg[c].policy # "mutation"
  THEN c ELSE NoFn

\* what a step that ends invocations of consumer c did to the shared cache
RunEv(c, w) ==
  IF KeyOf(c) # NoKey
  THEN [NoEv EXCEPT !.op = "run", !.setter = FnRefOf(c), !.notified = w.notified]
  ELSE NoEv

\* query(client.query, variables): the selector read against client i
Read(w, c, i, origin) ==
  IF w.clients[c][i].data # ABSENT
  THEN [w |-> w, val |-> w.clients[c][i].data, avail |-> TRUE]
  ELSE [w |-> [w EXCEPT !.clients[c][i].pending = @ \cup {origin}],
        val |-> NULL, avail |-> FALSE]

\* a variant that never writes
WriteThroughNever(w, key, val, fn) == w

\* the write to the shared cache that follows the final done dispatch
WriteThrough(w, key, val, fn) ==
  IF key # NoKey THEN SharedCache_setCacheData(w, key, val, fn) ELSE w

\* the end of queryCallback: the done dispatch and the return
FinishRun(w, c, val, key, fn) ==
  WriteThrough(Dispatch(w, c, "done", val), key, val, fn)

\* a variant that also builds a fresh client under cache-first
ForcesNetworkAlways(policy) ==
  policy \in {"no-cache", "network-only", "cache-and-network", "cache-first"}

\* the policies under which queryCallback builds a fresh client
ForcesNetwork(policy) == policy \in {"no-cache", "network-only", "cache-and-network"}

\* a variant that never pushes the value it read
PushesCachedNever(policy) == FALSE

\* whether queryCallback pushes the value it read with a setData dispatch
PushesCached(policy) == policy = "cache-and-network"

\* a variant that never joins the wait of a pending fetch
GoesOnWithoutWaitAlways(noCache, isFetchingGqless) == TRUE

\* whether queryCallback goes on without waiting for the accessors its read
\* left pending; otherwise it waits for the fetch of the client it read
GoesOnWithoutWait(noCache, isFetchingGqless) == noCache \/ ~isFetchingGqless

\* queryCallback up to its first await (or to its end when it never awaits)
queryCallback(w, c, policy, key, fn) ==
  LET w1 == [w EXCEPT !.optPolicy[c] = policy, !.hist[c].runs = @ + 1]
      i0 == Len(w1.clients[c])
      noCache == policy \in {"network-only", "no-cache"}
      rd == IF noCache THEN [w |-> w1, val |-> NULL, avail |-> FALSE]
            ELSE Read(w1, c, i0, policy)
      isFetchingGqless == rd.w.clients[c][i0].pending # {}
      w3 == IF isFetchingGqless THEN [rd.w EXCEPT !.isFetching[c] = TRUE] ELSE rd.w
  IN IF policy = "cache-only" THEN
       LET w4 == Dispatch(w3, c, "done", rd.val)
       IN IF ~isFetchingGqless THEN [w4 EXCEPT !.isFetching[c] = FALSE] ELSE w4
     ELSE IF GoesOnWithoutWait(noCache, isFetchingGqless) THEN
       LET w4 == IF PushesCached(policy) THEN Dispatch(w3, c, "setData", rd.val) ELSE w3
       IN IF ForcesNetwork(policy) THEN
            LET w5 == [w4 EXCEPT !.clients[c] = Append(@, NewClient)]
                w6 == Read(w5, c, i0 + 1, policy).w
            IN [w6 EXCEPT !.clients[c][i0 + 1].watched = TRUE,
                          !.runs[c] = Append(@, [policy |-> policy, client |-> i0 + 1,
                                                 newClient |-> TRUE, cached |-> rd.val])]
          ELSE FinishRun(w4, c, rd.val, key, fn)
     ELSE [w3 EXCEPT !.clients[c][i0].watched = TRUE,
                     !.runs[c] = Append(@, [policy |-> policy, client |-> i0,
                                            newClient |-> FALSE, cached |-> rd.val])]

\* queryCallback after its await: the re-read and the end
ResumeRun(w, c, run, key, fn) ==
  LET rd == Read(w, c, run.client, run.policy)
  IN FinishRun(rd.w, c, rd.val, key, fn)

RECURSIVE ResumeAll(_, _, _, _, _)
ResumeAll(w, c, rs, key, fn) ==
  IF rs = <<>> THEN w
  ELSE ResumeAll(ResumeRun(w, c, Head(rs), key, fn), c, Tail(rs), key, fn)

\* the runs of a sequence that wait on client i / on another client
RECURSIVE OnClient(_, _)
OnClient(rs, i) ==
  IF rs = <<>> THEN <<>>
  ELSE IF Head(rs).client = i THEN <<Head(rs)>> \o OnClient(Tail(rs), i)
  ELSE OnClient(Tail(rs), i)

RECURSIVE NotOnClient(_, _)
NotOnClient(rs, i) ==
  IF rs = <<>> THEN <<>>
  ELSE IF Head(rs).client # i THEN <<Head(rs)>> \o NotOnClient(Tail(rs), i)
  ELSE NotOnClient(Tail(rs), i)

\* client i's commit is fetched: onFetched resolves and the waiting runs go on
Fetched(w, c, i, key, fn) ==
  LET waiting == OnClient(w.runs[c], i)
      w1 == [w EXCEPT !.clients[c][i].pending = {},
                      !.clients[c][i].inflight = FALSE,
                      !.isFetching[c] = IF w.clients[c][i].watched THEN FALSE ELSE @,
                      !.clients[c][i].watched = FALSE,
                      !.runs[c] = NotOnClient(@, i)]
  IN ResumeAll(w1, c, waiting, key, fn)

\* ------------------------------------------------------ the fetch executor
\* fetchQuery returns without the transport under this policy
ShortCircuits(policy) == policy = "cache-only"

\* the start of fetchQuery: the loading dispatch before the transport call
FetchStart(w, c, i, mountedNow) ==
  LET w1 == IF mountedNow /\ w.stateRef[c].fetchState # "loading"
            THEN Dispatch(w, c, "loading", UNDEF)
            ELSE w
  IN [w1 EXCEPT !.clients[c][i].inflight = TRUE, !.clients[c][i].net = TRUE,
                !.hist[c].net = @ + 1]

\* the end of fetchQuery on an answer that carries errors
FetchErrors(w, c, mountedNow) ==
  LET w1 == IF mountedNow THEN Dispatch(w, c, "error", GqlErrors) ELSE w
  IN [w1 EXCEPT !.hist[c].clean = FALSE]

\* ------------------------------------------------------------ first mount
\* a variant that never reads the cache
FirstMountCacheNone(ref, policy, lazy, key, stored) == [ref |-> ref, found |-> FALSE]

\* a variant that takes only a truthy stored value
FirstMountCacheTruthy(ref, policy, lazy, key, stored) ==
  IF key # NoKey /\ ~lazy
     /\ policy \in {"cache-and-network", "cache-first", "cache-only"}
     /\ Truthy(stored)
  THEN [ref |-> [ref EXCEPT !.called = TRUE, !.data = stored, !.errors = NoErrors,
                            !.fetchState = IF policy # "cache-and-network"
                                           THEN "done" ELSE @],
        found |-> policy # "cache-and-network"]
  ELSE [ref |-> ref, found |-> FALSE]

\* useSubscribeCache at the first render: a stored value resolves the consumer
FirstMountCache(ref, policy, lazy, key, stored) ==
  IF key # NoKey /\ ~lazy
     /\ policy \in {"cache-and-network", "cache-first", "cache-only"}
     /\ stored # UNDEF
  THEN [ref |-> [ref EXCEPT !.called = TRUE, !.data = stored, !.errors = NoErrors,
                            !.fetchState = IF policy # "cache-and-network"
                                           THEN "done" ELSE @],
        found |-> policy # "cache-and-network"]
  ELSE [ref |-> ref, found |-> FALSE]

\* defaultOptions: the policy of a lazy hook that names none
LazyDefaultPolicy == "cache-and-network"

\* a variant in which every consumer starts waiting
InitialStateRefWaiting(lazy) == lazyInitialState

\* the state a consumer starts from
InitialStateRef(lazy) == IF lazy THEN lazyInitialState ELSE earlyInitialState

\* a variant in which a lazy consumer starts at its first render too
StartsAtMountLazyToo(lazy, found) == ~found

\* whether the first render starts the policy engine
StartsAtMount(lazy, found) == ~lazy /\ ~found

\* ----------------------------------------------------------------- actions
Apply(w) ==
  /\ state' = w.state
  /\ stateRef' = w.stateRef
  /\ optPolicy' = w.optPolicy
  /\ isFetching' = w.isFetching
  /\ clients' = w.clients
  /\ runs' = w.runs
  /\ cacheData' = w.cacheData
  /\ cacheSubscribers' = w.cacheSubscribers
  /\ hist' = w.hist

InitWith(prod) ==
  /\ phase = [c \in Consumers |-> "unmounted"]
  /\ cfg = [c \in Consumers |-> [policy |-> "cache-first", lazy |-> FALSE, key |-> NoKey]]
  /\ state = [c \in Consumers |-> lazyInitialState]
  /\ stateRef = [c \in Consumers |-> lazyInitialState]
  /\ optPolicy = [c \in Consumers |-> "cache-first"]
  /\ isFetching = [c \in Consumers |-> FALSE]
  /\ clients = [c \in Consumers |-> <<NewClient>>]
  /\ runs = [c \in Consumers |-> <<>>]
  /\ cacheData = [k \in AllKeys |-> UNDEF]
  /\ cacheSubscribers = [k \in AllKeys |-> {}]
  /\ hist = [c \in Consumers |-> NoHist]
  /\ nWrites = 0
  /\ ev = NoEv
  /\ hooksPool = [id \in HookIds |-> NoHook]
  /\ hookId = [c \in Consumers |-> NoId]
  /\ warnings = 0
  /\ production = prod
  /\ more = [c \in Consumers |-> NoMore]
  /\ pollInterval = [c \in Consumers |-> 0]
  /\ timer = [c \in Consumers |-> FALSE]
  /\ pollClients = [c \in Consumers |-> {}]
  /\ skip = [c \in Consumers |-> FALSE]
  /\ rendered = [c \in Consumers |-> NoRender]
  /\ completed = [c \in Consumers |-> NoCompleted]
  /\ subSets = <<>>
  /\ subCurrent = [k \in AllKeys |-> 0]
  /\ subHeld = <<>>

\* the development build
Init == InitWith(FALSE)

\* either build
InitPool == \E prod \in BOOLEAN : InitWith(prod)

\* the first render of consumer c
MountRender(c, policy, lazy, key) ==
  /\ phase[c] = "unmounted"
  /\ \A d \in Consumers : d < c => phase[d] # "unmounted"
  /\ LET stored == IF key # NoKey THEN cacheData[key] ELSE UNDEF
         fm == FirstMountCache(InitialStateRef(lazy), policy, lazy, key, stored)
         w0 == [World EXCEPT !.stateRef[c] = fm.ref, !.state[c] = fm.ref,
                             !.optPolicy[c] = policy]
         w1 == IF StartsAtMount(lazy, fm.found)
               THEN queryCallback([w0 EXCEPT !.isFetching[c] = TRUE], c, policy, key, NoFn)
               ELSE w0
     IN /\ Apply(w1)
        /\ ev' = NoEv
  /\ phase' = [phase EXCEPT ![c] = "rendered"]
  /\ cfg' = [cfg EXCEPT ![c] = [policy |-> policy, lazy |-> lazy, key |-> key]]
  /\ UNCHANGED nWrites
  /\ UNCHANGED extra

\* the effects of the first render: the cache subscription, isMountedRef
MountEffects(c) ==
  /\ phase[c] = "rendered"
  /\ LET key == cfg[c].key
         w1 == IF key # NoKey THEN SharedCache_subscribeCache(World, key, c) ELSE World
     IN /\ Apply(w1)
        /\ ev' = IF key # NoKey
                 THEN [NoEv EXCEPT !.op = "subscribe", !.c = c, !.key = key,
                                   !.val = cacheData[key],
                                   !.notified = w1.notified]
                 ELSE NoEv
  /\ phase' = [phase EXCEPT ![c] = "mounted"]
  /\ UNCHANGED <<cfg, nWrites>>
  /\ UNCHANGED extra

\* a later render: optionsRef.current and stateRef.current are assigned anew
Render(c) ==
  /\ phase[c] = "mounted"
  /\ optPolicy[c] # cfg[c].policy \/ stateRef[c] # state[c]
  /\ optPolicy' = [optPolicy EXCEPT ![c] = cfg[c].policy]
  /\ stateRef' = [stateRef EXCEPT ![c] = state[c]]
  /\ ev' = NoEv
  /\ UNCHANGED <<phase, cfg, state, isFetching, clients, runs, cacheData,
                 cacheSubscribers, hist, nWrites>>
  /\ UNCHANGED extra

\* callback({fetchPolicy}), refetch() or cacheRefetch() on a mounted consumer
Callback(c, policy) ==
  /\ phase[c] = "mounted"
  /\ hist[c].runs < MaxRuns
  /\ LET w1 == queryCallback(World, c, policy, KeyOf(c), FnRefOf(c))
     IN /\ Len(w1.clients[c]) <= MaxClients
        /\ Apply(w1)
        /\ ev' = RunEv(c, w1)
  /\ UNCHANGED <<phase, cfg, nWrites>>
  /\ UNCHANGED extra

\* the scheduler of client i calls the fetcher for the pending accessors
SchedulerCommit(c, i) ==
  /\ i \in 1..Len(clients[c])
  /\ clients[c][i].pending # {}
  /\ ~clients[c][i].inflight
  /\ IF ShortCircuits(optPolicy[c])
     THEN LET w1 == Fetched(World, c, i, KeyOf(c), FnRefOf(c))
          IN /\ Apply(w1)
             /\ ev' = RunEv(c, w1)
     ELSE /\ hist[c].net < MaxNet
          /\ Apply(FetchStart(World, c, i, phase[c] # "dismounted"))
          /\ ev' = NoEv
  /\ UNCHANGED <<phase, cfg, nWrites>>
  /\ UNCHANGED extra

\* the transport answers the call of client i
FetchResponse(c, i, outcome, v) ==
  /\ i \in 1..Len(clients[c])
  /\ clients[c][i].inflight
  /\ LET w1 == IF outcome = "ok"
               THEN [World EXCEPT !.clients[c][i].data = v]
               ELSE FetchErrors(World, c, phase[c] # "dismounted")
         w2 == Fetched(w1, c, i, KeyOf(c), FnRefOf(c))
     IN /\ Apply(w2)
        /\ ev' = RunEv(c, w2)
  /\ UNCHANGED <<phase, cfg, nWrites>>
  /\ UNCHANGED extra

\* a variant in which the timer rejects
TimeoutSettlesRejected == "rejected"

\* how the promise of an invocation settles when the timer of
\* waitForGqlessFetch fires first: the timer calls resolve()
TimeoutSettles == "resolved"

\* the timer of the k-th suspended run of consumer c fires first
Timeout(c, k) ==
  /\ k \in 1..Len(runs[c])
  /\ LET run == runs[c][k]
         w1 == [World EXCEPT !.isFetching[c] = FALSE,
                             !.hist[c].clean = FALSE,
                             !.runs[c] = SubSeq(@, 1, k - 1) \o SubSeq(@, k + 1, Len(@))]
         w2 == ResumeRun(w1, c, run, KeyOf(c), FnRefOf(c))
     IN /\ Apply(w2)
        /\ ev' = [RunEv(c, w2) EXCEPT !.op = "timeout", !.c = c,
                                      !.settled = TimeoutSettles]
  /\ UNCHANGED <<phase, cfg, nWrites>>
  /\ UNCHANGED extra

\* a variant of the cleanup that leaves the timer set
clearIntervalNever(t) == t

\* the cleanup of the polling effect: clearInterval(interval)
clearInterval(t) == FALSE

\* the consumer is unmounted: the subscription effect and the polling effect
\* are cleaned up
Unmount(c) ==
  /\ phase[c] = "mounted"
  /\ Apply(IF cfg[c].key # NoKey
           THEN SharedCache_unsubscribe(World, cfg[c].key, c)
           ELSE World)
  /\ phase' = [phase EXCEPT ![c] = "dismounted"]
  /\ timer' = [timer EXCEPT ![c] = clearInterval(@)]
  /\ ev' = NoEv
  /\ UNCHANGED <<cfg, nWrites, poolVars, more, pollInterval, pollClients, skip,
                 completedVars, subVars>>

\* a render of the mounted consumer c with another sharedCacheId and the
\* effect that depends on it: the cleanup of the last run, then the new run
ChangeKey(c, key) ==
  /\ phase[c] = "mounted"
  /\ key # cfg[c].key
  /\ LET w1 == IF cfg[c].key # NoKey
               THEN SharedCache_unsubscribe(World, cfg[c].key, c)
               ELSE World
         w2 == IF key # NoKey THEN SharedCache_subscribeCache(w1, key, c) ELSE w1
     IN /\ Apply(w2)
        /\ ev' = IF key # NoKey
                 THEN [NoEv EXCEPT !.op = "resubscribe", !.c = c, !.key = key,
                                   !.val = cacheData[key], !.notified = w2.notified]
                 ELSE NoEv
  /\ cfg' = [cfg EXCEPT ![c].key = key]
  /\ UNCHANGED <<phase, nWrites>>
  /\ UNCHANGED extra

\* setCacheData(key, value) and setCacheData(key, prev => value)
SetCacheData(key, isFn, arg) ==
  /\ nWrites < MaxWrites
  /\ LET w1 == setCacheData(World, key, isFn, arg)
         v == IF isFn THEN ApplyUpdater(arg, cacheData[key]) ELSE arg
     IN /\ Apply(w1)
        /\ ev' = [NoEv EXCEPT !.op = "write", !.key = key, !.val = v,
                              !.notified = w1.notified,
                              !.performed = (cacheData[key] # v)]
  /\ nWrites' = nWrites + 1
  /\ UNCHANGED <<phase, cfg>>
  /\ UNCHANGED extra

\* clearCacheKey(key)
ClearCacheKey(key) ==
  /\ cacheData[key] # UNDEF
  /\ LET w1 == SharedCache_clearCacheKey(World, key)
     IN /\ Apply(w1)
        /\ ev' = [NoEv EXCEPT !.op = "clear", !.key = key, !.notified = w1.notified]
  /\ UNCHANGED <<phase, cfg, nWrites>>
  /\ UNCHANGED extra

\* useReducer(StateReducer, StateReducerInitialState(lazy)) on its own
UseReducer(c, lazy) ==
  /\ phase[c] = "unmounted"
  /\ state' = [state EXCEPT ![c] = InitialStateRef(lazy)]
  /\ stateRef' = [stateRef EXCEPT ![c] = InitialStateRef(lazy)]
  /\ cfg' = [cfg EXCEPT ![c].lazy = lazy]
  /\ phase' = [phase EXCEPT ![c] = "rendered"]
  /\ ev' = NoEv
  /\ UNCHANGED <<optPolicy, isFetching, clients, runs, cacheData, cacheSubscribers,
                 hist, nWrites>>
  /\ UNCHANGED extra

\* dispatch({type, payload, stateRef}) on the reducer of consumer c
ReducerDispatch(c, type, payload) ==
  /\ phase[c] = "rendered"
  /\ Apply(Dispatch(World, c, type, payload))
  /\ ev' = [NoEv EXCEPT !.op = type, !.c = c, !.val = payload]
  /\ UNCHANGED <<phase, cfg, nWrites>>
  /\ UNCHANGED extra

\* a variant that never prints the diagnostic
WarnsDuplicateNever(prod, pool, id) == FALSE

\* whether subscribeHookPool prints the duplicate-id diagnostic
WarnsDuplicate(prod, pool, id) == ~prod /\ pool[id] # NoHook

\* the pool effect of consumer c: SharedCache.subscribeHookPool(hookId, hook)
SubscribeHookPool(c, id) ==
  /\ hookId[c] = NoId
  /\ warnings < MaxWarnings
  /\ warnings' = IF WarnsDuplicate(production, hooksPool, id) THEN warnings + 1 ELSE warnings
  /\ hooksPool' = [hooksPool EXCEPT ![id] = c]
  /\ hookId' = [hookId EXCEPT ![c] = id]
  /\ UNCHANGED <<phase, cfg, state, stateRef, optPolicy, isFetching, clients, runs,
                 cacheData, cacheSubscribers, hist, nWrites, ev, production, more,
                 pollVars, skip,
                 completedVars, subVars>>

\* the cleanup of the pool effect: the disposer subscribeHookPool returned
UnsubscribeHookPool(c) ==
  /\ hookId[c] # NoId
  /\ hooksPool' = [hooksPool EXCEPT ![hookId[c]] = NoHook]
  /\ hookId' = [hookId EXCEPT ![c] = NoId]
  /\ UNCHANGED <<phase, cfg, state, stateRef, optPolicy, isFetching, clients, runs,
                 cacheData, cacheSubscribers, hist, nWrites, ev, warnings, production,
                 more, pollVars, skip,
                 completedVars, subVars>>

\* ------------------------------------------------------------- fetchMore
\* the merge functions a caller may hand to fetchMore
UpdateQueries == {"newOrPrevious", "union"}

\* the pages a fetchMore call may fetch
MoreValues == {NULL, "a", "o1"}

\* the pages "a" and "o1" folded into one list
BothPages == "a+o1"

\* the caller's merge function applied to (previousResult, fetchMoreResult)
updateQuery(f, previousResult, fetchMoreResult) ==
  IF f = "newOrPrevious"
  THEN IF Truthy(fetchMoreResult) THEN fetchMoreResult ELSE previousResult
  ELSE IF ~Truthy(previousResult) THEN fetchMoreResult
  ELSE IF ~Truthy(fetchMoreResult) THEN previousResult
  ELSE IF previousResult = fetchMoreResult THEN previousResult
  ELSE BothPages

\* a variant that notifies whatever the caller asked for
NotifiesLoadingAlways(shouldNotifyLoading, isNotDismounted, fetchState) ==
  isNotDismounted /\ fetchState # "loading"

\* whether the fetch executor dispatches loading before the transport call
NotifiesLoading(shouldNotifyLoading, isNotDismounted, fetchState) ==
  shouldNotifyLoading /\ isNotDismounted /\ fetchState # "loading"

\* a variant that takes the fetched page and ignores the merge function
FetchMoreResultFetched(f, previous, fetched) == fetched

\* the value fetchMore dispatches and resolves to
FetchMoreResult(f, previous, fetched) == updateQuery(f, previous, fetched)

\* fetchMore({variables, updateQuery, notifyLoading}) up to the transport call
FetchMore(c, notifyLoading, f) ==
  /\ phase[c] = "mounted"
  /\ runs[c] = <<>>
  /\ \A i \in 1..Len(clients[c]) : clients[c][i].pending = {}
  /\ more[c].stage # "fetching"
  /\ more[c].n < MaxMore
  /\ LET w1 == IF NotifiesLoading(notifyLoading, phase[c] # "dismounted",
                                  stateRef[c].fetchState)
               THEN Dispatch(World, c, "loading", UNDEF)
               ELSE World
     IN Apply(w1)
  /\ more' = [more EXCEPT ![c] =
                [stage |-> "fetching", n |-> @.n + 1, notifyLoading |-> notifyLoading,
                 updateQuery |-> f, previous |-> stateRef[c].data,
                 wasDone |-> stateRef[c].fetchState = "done",
                 args |-> <<>>, resolved |-> UNDEF]]
  /\ ev' = NoEv
  /\ UNCHANGED <<phase, cfg, nWrites, poolVars, pollVars, skip,
                 completedVars, subVars>>

\* the transport answers the fetchMore call with the page v
FetchMoreResponse(c, v) ==
  /\ more[c].stage = "fetching"
  /\ LET merged == FetchMoreResult(more[c].updateQuery, more[c].previous, v)
         w1 == FinishRun(World, c, merged, KeyOf(c), FnRefOf(c))
     IN /\ Apply(w1)
        /\ ev' = RunEv(c, w1)
        /\ more' = [more EXCEPT ![c].stage = "settled",
                                ![c].args = <<more[c].previous, v>>,
                                ![c].resolved = merged]
  /\ UNCHANGED <<phase, cfg, nWrites, poolVars, pollVars, skip,
                 completedVars, subVars>>

\* ------------------------------------------------------------ useMutation
\* how the promise of mutationCallback settles when its timer fires first:
\* the timer calls reject(Error(TIMEOUT_ERROR_MESSAGE))
MutationTimeoutSettles == "rejected"

\* the first render of a useMutation hook and its effects
UseMutation(c, key) ==
  /\ phase[c] = "unmounted"
  /\ state' = [state EXCEPT ![c] = lazyInitialState]
  /\ stateRef' = [stateRef EXCEPT ![c] = lazyInitialState]
  /\ optPolicy' = [optPolicy EXCEPT ![c] = "mutation"]
  /\ cfg' = [cfg EXCEPT ![c] = [policy |-> "mutation", lazy |-> TRUE, key |-> key]]
  /\ phase' = [phase EXCEPT ![c] = "mounted"]
  /\ ev' = NoEv
  /\ UNCHANGED <<isFetching, clients, runs, cacheData, cacheSubscribers, hist, nWrites>>
  /\ UNCHANGED extra

\* mutationCallback up to its await: a client of its own and the first read
mutationCallback(w, c) ==
  LET w1 == [w EXCEPT !.hist[c].runs = @ + 1, !.clients[c] = Append(@, NewClient)]
      i == Len(w1.clients[c])
      rd == Read(w1, c, i, "mutation")
  IN [rd.w EXCEPT !.runs[c] = Append(@, [policy |-> "mutation", client |-> i,
                                         newClient |-> TRUE, cached |-> rd.val])]

\* the mutation callback of a mounted useMutation hook is called
MutationCallback(c) ==
  /\ phase[c] = "mounted"
  /\ cfg[c].policy = "mutation"
  /\ hist[c].runs < MaxRuns
  /\ LET w1 == mutationCallback(World, c)
     IN /\ Len(w1.clients[c]) <= MaxPollClients
        /\ Apply(w1)
  /\ ev' = NoEv
  /\ UNCHANGED <<phase, cfg, nWrites>>
  /\ UNCHANGED extra

\* the timer of the k-th suspended mutationCallback fires first: the await
\* throws, and neither the re-read nor the done dispatch take place
MutationTimeout(c, k) ==
  /\ cfg[c].policy = "mutation"
  /\ k \in 1..Len(runs[c])
  /\ Apply([World EXCEPT !.hist[c].clean = FALSE,
                         !.runs[c] = SubSeq(@, 1, k - 1) \o SubSeq(@, k + 1, Len(@))])
  /\ ev' = [NoEv EXCEPT !.op = "timeout", !.c = c, !.settled = MutationTimeoutSettles]
  /\ UNCHANGED <<phase, cfg, nWrites>>
  /\ UNCHANGED extra

\* ---------------------------------------------------------------- polling
\* the values of the pollInterval option: unset or 0, and a positive interval
PollIntervals == {0, 1}

\* a render with another pollInterval: the polling effect is cleaned up and
\* runs again
SetPollInterval(c, n) ==
  /\ phase[c] = "mounted"
  /\ n # pollInterval[c]
  /\ pollInterval' = [pollInterval EXCEPT ![c] = n]
  /\ timer' = [timer EXCEPT ![c] = IF n > 0 THEN TRUE ELSE clearInterval(@)]
  /\ ev' = NoEv
  /\ UNCHANGED <<phase, cfg, state, stateRef, optPolicy, isFetching, clients, runs,
                 cacheData, cacheSubscribers, hist, nWrites, poolVars, more,
                 pollClients, skip,
                 completedVars, subVars>>

\* the interval timer of consumer c fires: the callback of setInterval up to
\* its await. What follows the await assigns isFetchingRef.current = false,
\* which the step that settles the invocation has assigned already.
Tick(c) ==
  /\ timer[c]
  /\ IF ~isFetching[c]
     THEN /\ hist[c].runs < MaxPollRuns
          /\ LET w1 == queryCallback([World EXCEPT !.isFetching[c] = TRUE], c,
                                     "network-only", KeyOf(c), FnRefOf(c))
             IN /\ Len(w1.clients[c]) <= MaxPollClients
                /\ Apply(w1)
                /\ pollClients' = [pollClients EXCEPT ![c] = @ \cup {Len(w1.clients[c])}]
          /\ ev' = [NoEv EXCEPT !.op = "tick", !.c = c, !.performed = TRUE]
     ELSE /\ ev' = [NoEv EXCEPT !.op = "tick", !.c = c]
          /\ UNCHANGED <<state, stateRef, optPolicy, isFetching, clients, runs,
                         cacheData, cacheSubscribers, hist, pollClients>>
  /\ UNCHANGED <<phase, cfg, nWrites, poolVars, more, pollInterval, timer, skip,
                 completedVars, subVars>>

\* the policy engine of one consumer without a shared cache id
Next ==
  \/ \E policy \in Policies : MountRender(1, policy, FALSE, NoKey)
  \/ \E policy \in {LazyDefaultPolicy, "network-only"} : MountRender(1, policy, TRUE, NoKey)
  \/ MountEffects(1)
  \/ Render(1)
  \/ \E policy \in Policies : Callback(1, policy)
  \/ \E i \in 1..MaxClients : SchedulerCommit(1, i)
  \/ \E i \in 1..MaxClients, v \in ServerValues : FetchResponse(1, i, "ok", v)
  \/ \E i \in 1..MaxClients : FetchResponse(1, i, "errors", UNDEF)
  \/ \E k \in 1..MaxRuns : Timeout(1, k)
  \/ Unmount(1)

Spec == Init /\ [][Next]_vars

\* consumers that share a cache id, and the imperative cache functions, with
\* a transport that answers every call with data
NextCache ==
  \/ \E c \in Consumers, policy \in Policies \ {"no-cache"}, key \in Keys :
       MountRender(c, policy, FALSE, key)
  \/ \E c \in Consumers, key \in Keys : MountRender(c, LazyDefaultPolicy, TRUE, key)
  \/ \E c \in Consumers : MountEffects(c)
  \/ \E c \in Consumers, i \in 1..MaxClients : SchedulerCommit(c, i)
  \/ \E c \in Consumers, i \in 1..MaxClients, v \in ServerValues :
       FetchResponse(c, i, "ok", v)
  \/ \E c \in Consumers : Unmount(c)
  \/ \E key \in Keys, v \in WriteValues : SetCacheData(key, FALSE, v)
  \/ \E key \in Keys, f \in Updaters : SetCacheData(key, TRUE, f)
  \/ \E key \in Keys : ClearCacheKey(key)

SpecCache == Init /\ [][NextCache]_vars

\* the payloads a dispatch carries
Payloads == {UNDEF, NULL, "a", "o1", "o2"}

\* the reducer under every sequence of dispatches
NextReducer ==
  \/ \E c \in Consumers, lazy \in BOOLEAN : UseReducer(c, lazy)
  \/ \E c \in Consumers : ReducerDispatch(c, "loading", UNDEF)
  \/ \E c \in Consumers, payload \in Payloads : ReducerDispatch(c, "done", payload)
  \/ \E c \in Consumers : ReducerDispatch(c, "error", GqlErrors)
  \/ \E c \in Consumers, payload \in Payloads : ReducerDispatch(c, "setData", payload)

SpecReducer == Init /\ [][NextReducer]_vars

\* the consumer registry in either build
NextPool ==
  \/ \E c \in Consumers, id \in HookIds : SubscribeHookPool(c, id)
  \/ \E c \in Consumers : UnsubscribeHookPool(c)

SpecPool == InitPool /\ [][NextPool]_vars

\* a consumer that fetches at its first render and then fetches more pages
NextMore ==
  \/ \E policy \in {"cache-first", "network-only"}, key \in Keys \cup {NoKey} :
       MountRender(1, policy, FALSE, key)
  \/ MountEffects(1)
  \/ \E i \in 1..MaxClients : SchedulerCommit(1, i)
  \/ \E i \in 1..MaxClients, v \in ServerValues : FetchResponse(1, i, "ok", v)
  \/ \E notifyLoading \in BOOLEAN, f \in UpdateQueries : FetchMore(1, notifyLoading, f)
  \/ \E v \in MoreValues : FetchMoreResponse(1, v)

SpecMore == Init /\ [][NextMore]_vars

\* a consumer that polls
NextPoll ==
  \/ \E lazy \in BOOLEAN : MountRender(1, LazyDefaultPolicy, lazy, NoKey)
  \/ MountEffects(1)
  \/ \E n \in PollIntervals : SetPollInterval(1, n)
  \/ Tick(1)
  \/ \E i \in 1..MaxPollClients : SchedulerCommit(1, i)
  \/ \E i \in 1..MaxPollClients : FetchResponse(1, i, "ok", "a")
  \/ \E k \in 1..MaxPollRuns : Timeout(1, k)
  \/ Unmount(1)

SpecPoll == Init /\ [][NextPoll]_vars

\* a lazy useQuery hook (consumer 1) and a useMutation hook (consumer 2),
\* both driven by explicit calls of their callbacks
NextTimeout ==
  \/ \E policy \in {LazyDefaultPolicy, "cache-first"} : MountRender(1, policy, TRUE, NoKey)
  \/ MountEffects(1)
  \/ \E policy \in {"cache-first", "network-only"} : Callback(1, policy)
  \/ \E k \in 1..MaxRuns : Timeout(1, k)
  \/ UseMutation(2, NoKey)
  \/ MutationCallback(2)
  \/ \E k \in 1..MaxRuns : MutationTimeout(2, k)
  \/ \E c \in Consumers, i \in 1..MaxPollClients : SchedulerCommit(c, i)
  \/ \E c \in Consumers, i \in 1..MaxPollClients : FetchResponse(c, i, "ok", "a")

SpecTimeout == Init /\ [][NextTimeout]_vars

\* ------------------------------------------------------------- the skip option
\* the guard of the cache read at render in useSubscribeCache
ReadsCacheAtRenderSkipToo(firstMount, skipped) == firstMount

ReadsCacheAtRender(firstMount, skipped) == firstMount /\ ~skipped

\* what the render of a non-lazy consumer whose firstMount flag is still set
\* makes of stateRef.current
RenderCache(ref, policy, key, skipped) ==
  IF ReadsCacheAtRender(TRUE, skipped)
  THEN FirstMountCache(ref, policy, FALSE, key,
                       IF key # NoKey THEN cacheData[key] ELSE UNDEF)
  ELSE [ref |-> ref, found |-> FALSE]

\* the first render of the non-lazy consumer c with skip: true; the hook
\* starts in state waiting and starts no invocation
MountSkipped(c, policy, key) ==
  /\ phase[c] = "unmounted"
  /\ \A d \in Consumers : d < c => phase[d] # "unmounted"
  /\ LET fm == RenderCache(lazyInitialState, policy, key, TRUE)
     IN Apply([World EXCEPT !.stateRef[c] = fm.ref, !.state[c] = fm.ref,
                            !.optPolicy[c] = policy])
  /\ ev' = NoEv
  /\ phase' = [phase EXCEPT ![c] = "rendered"]
  /\ cfg' = [cfg EXCEPT ![c] = [policy |-> policy, lazy |-> FALSE, key |-> key]]
  /\ skip' = [skip EXCEPT ![c] = TRUE]
  /\ UNCHANGED <<nWrites, poolVars, more, pollVars,
                 completedVars, subVars>>

\* a render of the mounted consumer c with skip: false after renders with
\* skip: true: the cache read that was put off, then the invocation a
\* first mount starts
Unskip(c) ==
  /\ phase[c] = "mounted" /\ skip[c]
  /\ hist[c].runs < MaxRuns
  /\ LET fm == RenderCache(state[c], cfg[c].policy, KeyOf(c), FALSE)
         w0 == [World EXCEPT !.stateRef[c] = fm.ref, !.state[c] = fm.ref,
                             !.optPolicy[c] = cfg[c].policy]
         w1 == IF StartsAtMount(FALSE, fm.found)
               THEN queryCallback([w0 EXCEPT !.isFetching[c] = TRUE], c,
                                  cfg[c].policy, KeyOf(c), FnRefOf(c))
               ELSE w0
     IN /\ Len(w1.clients[c]) <= MaxClients
        /\ Apply(w1)
  /\ ev' = [NoEv EXCEPT !.op = "unskip", !.c = c]
  /\ skip' = [skip EXCEPT ![c] = FALSE]
  /\ UNCHANGED <<phase, cfg, nWrites, poolVars, more, pollVars,
                 completedVars, subVars>>


\* a consumer that fills the cache and one that is mounted with skip: true
NextSkip ==
  \/ \E key \in Keys : MountRender(1, "cache-first", FALSE, key)
  \/ \E policy \in {"cache-first", "network-only"}, key \in Keys :
       MountSkipped(2, policy, key)
  \/ \E c \in Consumers : MountEffects(c)
  \/ Unskip(2)
  \/ \E c \in Consumers, i \in 1..MaxClients : SchedulerCommit(c, i)
  \/ \E c \in Consumers, i \in 1..MaxClients, v \in {"a", "o1"} :
       FetchResponse(c, i, "ok", v)
  \/ \E key \in Keys, v \in {NULL, "o2"} : SetCacheData(key, FALSE, v)
  \/ \E key \in Keys : ClearCacheKey(key)

SpecSkip == Init /\ [][NextSkip]_vars

\* ------------------------------------------------------------- onCompleted
\* the dependencies of the onCompleted effect: [isStateDone] in useQuery,
\* [isStateDone, stateRef.current.data] in useMutation
EffectDeps(c, st) ==
  IF cfg[c].policy = "mutation"
  THEN <<st.fetchState = "done", st.data>>
  ELSE <<st.fetchState = "done">>

\* whether the commit of a render runs the onCompleted effect: at mount,
\* and when a dependency differs from that of the last render
RunsEffect(c) ==
  rendered[c] = NoRender \/ EffectDeps(c, rendered[c]) # EffectDeps(c, state[c])

\* every mounted consumer has rendered its present state
Committed == \A c \in Consumers : phase[c] = "mounted" => rendered[c] = state[c]

\* the state of the mounted consumer c has changed or it has just mounted:
\* it renders, which assigns optionsRef.current and stateRef.current, and
\* the onCompleted effect runs if its dependencies ask for it
CommitEffects(c) ==
  /\ phase[c] = "mounted"
  /\ rendered[c] # state[c]
  /\ rendered' = [rendered EXCEPT ![c] = state[c]]
  /\ optPolicy' = [optPolicy EXCEPT ![c] = cfg[c].policy]
  /\ stateRef' = [stateRef EXCEPT ![c] = state[c]]
  /\ completed' = [completed EXCEPT ![c] =
                     IF RunsEffect(c) /\ state[c].fetchState = "done"
                     THEN [n |-> @.n + 1, data |-> state[c].data]
                     ELSE @]
  /\ ev' = [NoEv EXCEPT !.op = "commit", !.c = c]
  /\ UNCHANGED <<phase, cfg, state, isFetching, clients, runs, cacheData,
                 cacheSubscribers, hist, nWrites, poolVars, more, pollVars, skip, subVars>>

\* setData(data) of the mounted consumer c is called
SetData(c, data) ==
  /\ phase[c] = "mounted"
  /\ nWrites < MaxWrites
  /\ data # state[c].data
  /\ Apply(Dispatch(World, c, "setData", data))
  /\ ev' = [NoEv EXCEPT !.op = "setData", !.c = c, !.val = data]
  /\ nWrites' = nWrites + 1
  /\ UNCHANGED <<phase, cfg>>
  /\ UNCHANGED extra

\* a query consumer and a mutation; every state change is rendered and
\* committed before anything else happens
NextCompleted ==
  \/ \E c \in Consumers : CommitEffects(c)
  \/ \E key \in Keys : Committed /\ MountRender(1, "cache-first", FALSE, key)
  \/ Committed /\ MountEffects(1)
  \/ \E key \in Keys : Committed /\ UseMutation(2, key)
  \/ Committed /\ Callback(1, "network-only")
  \/ Committed /\ MutationCallback(2)
  \/ \E c \in Consumers, i \in 1..MaxPollClients : Committed /\ SchedulerCommit(c, i)
  \/ \E c \in Consumers, i \in 1..MaxPollClients :
       Committed /\ FetchResponse(c, i, "ok", "a")
  \/ \E key \in Keys : Committed /\ SetCacheData(key, FALSE, "o2")
  \/ \E c \in Consumers : Committed /\ SetData(c, "b")

SpecCompleted == Init /\ [][NextCompleted]_vars

\* ------------------------------------------------------- repeated writes
\* setCacheData(key, value) is called again with the value just written
Rewrite(key) ==
  /\ ev.op = "write" /\ ev.key = key
  /\ LET w1 == setCacheData(World, key, FALSE, ev.val)
     IN /\ Apply(w1)
        /\ ev' = [NoEv EXCEPT !.op = "rewrite", !.key = key, !.val = ev.val,
                              !.notified = w1.notified,
                              !.performed = (cacheData[key] # ev.val)]
  /\ UNCHANGED <<phase, cfg, nWrites>>
  /\ UNCHANGED extra

\* two cache-first consumers of a key, writes and repeated writes
NextWrites ==
  \/ \E c \in Consumers, key \in Keys : MountRender(c, "cache-first", FALSE, key)
  \/ \E c \in Consumers : MountEffects(c)
  \/ \E c \in Consumers, i \in 1..MaxClients : SchedulerCommit(c, i)
  \/ \E c \in Consumers, i \in 1..MaxClients, v \in ServerValues :
       FetchResponse(c, i, "ok", v)
  \/ \E key \in Keys, v \in {UNDEF, NULL, "a", "o2"} : SetCacheData(key, FALSE, v)
  \/ \E key \in Keys : Rewrite(key)

SpecWrites == Init /\ [][NextWrites]_vars

\* ------------------------------------------- the Set objects of the cache
\* SharedCache.subscribeCache(cacheKey, fn) with a function not seen before;
\* the key's Set object is created when the key has none
Subscribe(key) ==
  /\ Len(subHeld) < MaxSubs
  /\ LET fn == Len(subHeld) + 1
         fresh == subCurrent[key] = 0
         s == IF fresh THEN Len(subSets) + 1 ELSE subCurrent[key]
     IN /\ subSets' = IF fresh THEN Append(subSets, {fn})
                       ELSE [subSets EXCEPT ![s] = @ \cup {fn}]
        /\ subCurrent' = [subCurrent EXCEPT ![key] = s]
        /\ subHeld' = Append(subHeld, [fn |-> fn, key |-> key, set |-> s, calls |-> 0])
        /\ cacheSubscribers' = [cacheSubscribers EXCEPT ![key] = @ \cup {fn}]
        /\ ev' = [NoEv EXCEPT !.op = "subscribe", !.c = fn, !.key = key]
  /\ UNCHANGED <<phase, cfg, state, stateRef, optPolicy, isFetching, clients, runs,
                 cacheData, hist, nWrites, poolVars, more, pollVars, skip,
                 completedVars>>

\* the d-th disposer is called: it deletes its function from the Set object
\* it closed over and, when that Set is empty, deletes the key's entry
Dispose(d) ==
  /\ d \in 1..Len(subHeld)
  /\ subHeld[d].calls < MaxDisposals
  /\ LET h == subHeld[d]
         left == subSets[h.set] \ {h.fn}
         cur == IF left = {} THEN 0 ELSE subCurrent[h.key]
     IN /\ subSets' = [subSets EXCEPT ![h.set] = left]
        /\ subCurrent' = [subCurrent EXCEPT ![h.key] = cur]
        /\ subHeld' = [subHeld EXCEPT ![d].calls = @ + 1]
        /\ cacheSubscribers' = [cacheSubscribers EXCEPT ![h.key] =
                                  IF cur = 0 THEN {}
                                  ELSE IF cur = h.set THEN left ELSE subSets[cur]]
        /\ ev' = [NoEv EXCEPT !.op = "dispose", !.c = h.fn, !.key = h.key]
  /\ UNCHANGED <<phase, cfg, state, stateRef, optPolicy, isFetching, clients, runs,
                 cacheData, hist, nWrites, poolVars, more, pollVars, skip,
                 completedVars>>

NextSubs ==
  \/ \E key \in Keys : Subscribe(key)
  \/ \E d \in 1..MaxSubs : Dispose(d)

SpecSubs == Init /\ [][NextSubs]_vars

\* ------------------------------------------------ a body that is not JSON
\* the single error fetchQuery builds for a response that is not ok and
\* carries no errors array
NetworkError == "neterr"

\* fetchQuery on a response whose body is not JSON: response.json() throws
\* inside a try with an empty catch, json stays undefined, and the status
\* decides what follows; fetchQuery returns json
GarbledOutcome(ok) ==
  [dispatchesError |-> ~ok,
   effect |-> IF ok THEN "onSuccessEffect" ELSE "onErrorEffect",
   settles |-> "returned"]

\* the transport answers the call of client i with a body that is not JSON.
\* What the client makes of the undefined its fetcher returns is not part
\* of this code: either its commit counts as fetched, or nothing follows
\* and the invocations wait for their timers.
FetchGarbled(c, i, ok, resumes) ==
  /\ i \in 1..Len(clients[c])
  /\ clients[c][i].inflight
  /\ LET out == GarbledOutcome(ok)
         w1 == IF out.dispatchesError /\ phase[c] # "dismounted"
               THEN Dispatch(World, c, "error", NetworkError)
               ELSE World
         w2 == [w1 EXCEPT !.hist[c].clean = FALSE]
         w3 == IF resumes THEN Fetched(w2, c, i, KeyOf(c), FnRefOf(c))
               ELSE [w2 EXCEPT !.clients[c][i].inflight = FALSE,
                               !.clients[c][i].pending = {}]
     IN /\ Apply(w3)
        /\ ev' = [NoEv EXCEPT !.op = "garbled", !.c = c, !.val = out.effect,
                              !.performed = out.dispatchesError,
                              !.settled = out.settles]
  /\ UNCHANGED <<phase, cfg, nWrites>>
  /\ UNCHANGED extra

\* one consumer without a key whose transport may answer with a body that
\* is not JSON
NextGarbled ==
  \/ \E policy \in {"cache-first", "network-only"} : MountRender(1, policy, FALSE, NoKey)
  \/ MountEffects(1)
  \/ Callback(1, "network-only")
  \/ \E i \in 1..MaxClients : SchedulerCommit(1, i)
  \/ \E i \in 1..MaxClients : FetchResponse(1, i, "ok", "a")
  \/ \E i \in 1..MaxClients, ok, resumes \in BOOLEAN : FetchGarbled(1, i, ok, resumes)
  \/ \E k \in 1..MaxRuns : Timeout(1, k)
  \/ Unmount(1)

SpecGarbled == Init /\ [][NextGarbled]_vars

\* ------------------------------------- the re-read on a cache change
\* the condition of the subscriber useQuery hands to subscribeCache:
\* !isFetchingRef.current && optionsRef.current.lazy ? stateRef.current.called : true
StartsReread(fetching, lazy, called) ==
  IF ~fetching /\ lazy THEN called ELSE TRUE

\* the shared cache has changed and calls the subscriber of the mounted
\* consumer c, which starts queryCallback({fetchPolicy: 'cache-only'})
CacheChanged(c) ==
  /\ phase[c] = "mounted"
  /\ hist[c].runs < MaxRuns
  /\ LET starts == StartsReread(isFetching[c], cfg[c].lazy, stateRef[c].called)
         w1 == IF starts
               THEN queryCallback([World EXCEPT !.isFetching[c] = TRUE], c,
                                  "cache-only", KeyOf(c), FnRefOf(c))
               ELSE World
     IN /\ Apply(w1)
        /\ ev' = [NoEv EXCEPT !.op = "changed", !.c = c, !.performed = starts]
  /\ UNCHANGED <<phase, cfg, nWrites>>
  /\ UNCHANGED extra

\* one consumer whose subscriber re-reads on every change of the cache
NextReread ==
  \/ \E policy \in {"cache-first", "network-only"}, lazy \in BOOLEAN :
       MountRender(1, policy, lazy, NoKey)
  \/ MountEffects(1)
  \/ \E policy \in {"cache-first", "network-only"} : Callback(1, policy)
  \/ \E i \in 1..MaxClients : SchedulerCommit(1, i)
  \/ \E i \in 1..MaxClients, v \in ServerValues : FetchResponse(1, i, "ok", v)
  \/ CacheChanged(1)

SpecReread == Init /\ [][NextReread]_vars

\* ------------------------------------------------------------- progress
\* the transport answers a call of consumer c: with data, with errors, or
\* with a body that is not JSON
Answers(c) ==
  \E i \in 1..MaxClients :
    \/ \E v \in ServerValues : FetchResponse(c, i, "ok", v)
    \/ FetchResponse(c, i, "errors", UNDEF)
    \/ \E ok, resumes \in BOOLEAN : FetchGarbled(c, i, ok, resumes)

\* the policy engine of one consumer without a key
NextLive ==
  \/ \E policy \in {"cache-first", "network-only"} : MountRender(1, policy, FALSE, NoKey)
  \/ MountRender(1, "network-only", TRUE, NoKey)
  \/ MountEffects(1)
  \/ Render(1)
  \/ \E policy \in {"cache-first", "network-only"} : Callback(1, policy)
  \/ \E i \in 1..MaxClients : SchedulerCommit(1, i)
  \/ Answers(1)
  \/ \E k \in 1..MaxRuns : Timeout(1, k)
  \/ Unmount(1)

\* the effects of a mount run, a state change is rendered, a scheduler
\* that has accessors to fetch calls the fetcher, the transport answers
\* every call, and the timer of every waiting invocation fires unless the
\* answer comes first
Fairness ==
  /\ WF_vars(MountEffects(1))
  /\ WF_vars(Render(1))
  /\ WF_vars(\E i \in 1..MaxClients : SchedulerCommit(1, i))
  /\ WF_vars(Answers(1))
  /\ WF_vars(\E k \in 1..MaxRuns : Timeout(1, k))

SpecLive == Init /\ [][NextLive]_vars /\ Fairness

\* a lazy consumer (1) and a non-lazy one (2) that share a cache id, the
\* explicit callback of the lazy one, and the imperative cache functions
NextLazy ==
  \/ \E key \in Keys : MountRender(1, LazyDefaultPolicy, TRUE, key)
  \/ \E policy \in {"cache-first", "network-only"}, key \in Keys :
       MountRender(2, policy, FALSE, key)
  \/ \E c \in Consumers : MountEffects(c)
  \/ \E policy \in {"cache-first", "network-only"} : Callback(1, policy)
  \/ \E c \in Consumers, i \in 1..MaxClients : SchedulerCommit(c, i)
  \/ \E c \in Consumers, i \in 1..MaxClients : FetchResponse(c, i, "ok", "a")
  \/ \E key \in Keys : SetCacheData(key, FALSE, "o2")

SpecLazy == Init /\ [][NextLazy]_vars

\* consumers whose shared cache id changes between renders
NextKeys ==
  \/ \E c \in Consumers, key \in AllKeys \cup {NoKey} :
       MountRender(c, "cache-first", FALSE, key)
  \/ \E c \in Consumers : MountEffects(c)
  \/ \E c \in Consumers, key \in AllKeys \cup {NoKey} : ChangeKey(c, key)
  \/ \E c \in Consumers, i \in 1..MaxClients : SchedulerCommit(c, i)
  \/ \E c \in Consumers, i \in 1..MaxClients : FetchResponse(c, i, "ok", "a")
  \/ \E c \in Consumers : Unmount(c)

SpecKeys == Init /\ [][NextKeys]_vars

\* a query (consumer 1) and a mutation (consumer 2) that share a cache id
NextMutation ==
  \/ \E key \in Keys : MountRender(1, "cache-first", FALSE, key)
  \/ MountEffects(1)
  \/ \E key \in Keys : UseMutation(2, key)
  \/ MutationCallback(2)
  \/ \E c \in Consumers, i \in 1..MaxPollClients : SchedulerCommit(c, i)
  \/ \E c \in Consumers, i \in 1..MaxPollClients, v \in ServerValues :
       FetchResponse(c, i, "ok", v)
  \/ \E key \in Keys : SetCacheData(key, FALSE, "o2")
  \/ \E key \in Keys : ClearCacheKey(key)

SpecMutation == Init /\ [][NextMutation]_vars

TypeOK ==
  /\ \A c \in Consumers : state[c].fetchState \in FetchStates
  /\ \A c \in Consumers : Len(clients[c]) <= MaxPollClients

\* ------------------------------------------------------------- properties
\* the client a consumer's next invocation reads
Current(c) == clients[c][Len(clients[c])]

\* this step is an invocation of the policy engine on the mounted consumer c
Invokes(c, policy) ==
  /\ phase[c] = "mounted"
  /\ hist'[c].runs = hist[c].runs + 1
  /\ optPolicy'[c] = policy

\* C1: a transport call is never issued for accessors that only cache-only
\* invocations left pending (first mount, callback override or cacheRefetch).
C1_CacheOnlyNoTransport ==
  [][\A c \in Consumers : \A i \in 1..Len(clients[c]) :
       (~clients[c][i].net /\ clients'[c][i].net)
         => clients[c][i].pending # {"cache-only"}]_vars

\* this step is a fetcher call for client i that returns without the
\* transport and lets the invocations waiting on the client go on
ShortCircuited(c, i) ==
  /\ clients[c][i].pending # {} /\ ~clients[c][i].inflight
  /\ clients[c][i].watched /\ ~clients'[c][i].watched

\* C2: the fetch of a client on which a network-only or no-cache invocation
\* waits always reaches the transport: it is never short-circuited.
C2_NetworkAlwaysTransport ==
  [][\A c \in Consumers : \A i \in 1..Len(clients[c]) :
       ShortCircuited(c, i)
         => \A k \in 1..Len(runs[c]) :
              ~(runs[c][k].client = i
                /\ runs[c][k].policy \in {"network-only", "no-cache"})]_vars

\* C3: a cache-first invocation that finds a resolved value dispatches done
\* with that value and leaves nothing to fetch (no new client, no pending
\* accessor, no suspended run, no transport call); one that finds none leaves
\* its accessors pending and waits; accessors are pending for cache-first
\* only on a client without a resolved value.
C3_CacheFirst ==
  /\ [](\A c \in Consumers : \A i \in 1..Len(clients[c]) :
          "cache-first" \in clients[c][i].pending => clients[c][i].data = ABSENT)
  /\ [][\A c \in Consumers :
          Invokes(c, "cache-first") =>
            IF Current(c).data # ABSENT
            THEN /\ state'[c].data = Current(c).data
                 /\ state'[c].fetchState \in {"done", "error"}
                 /\ state'[c].fetchState = "error" => state'[c] = state[c]
                 /\ clients'[c] = clients[c]
                 /\ runs'[c] = runs[c]
                 /\ hist'[c].net = hist[c].net
            ELSE /\ Len(clients'[c]) = Len(clients[c])
                 /\ "cache-first" \in clients'[c][Len(clients[c])].pending
                 /\ Len(runs'[c]) = Len(runs[c]) + 1
                 /\ hist'[c].net = hist[c].net]_vars

\* a cache-first callback on a consumer configured otherwise has just found
\* the value its first fetch resolved
C3_Witness ==
  \E c \in Consumers :
    /\ hist[c].runs = 2 /\ hist[c].net = 1
    /\ optPolicy[c] = "cache-first" /\ cfg[c].policy = "network-only"
    /\ Len(clients[c]) = 2 /\ Current(c).data # ABSENT /\ Current(c).pending = {}
    /\ runs[c] = <<>>
    /\ state[c].fetchState = "done" /\ state[c].data = Current(c).data

\* this step starts a cache-and-network invocation that finds a resolved value
StartsWithCached(c) ==
  Invokes(c, "cache-and-network") /\ Current(c).data # ABSENT

C5_SetterNotNotified ==
  ev.setter # NoFn => ev.setter \notin ev.notified

\* a run of a subscribed consumer wrote through and other subscribers were invoked
C5_Witness ==
  \E k \in Keys :
    /\ ev.op = "run" /\ ev.setter # NoFn
    /\ ev.setter \in cacheSubscribers[k]
    /\ ev.notified # {}
    /\ cacheData[k] \in ServerValues

\* C6: subscribing to a key that already holds a value invokes the new
\* subscriber at once with that value, whoever else is subscribed and
\* whatever the value is.
C6_ReplayOnSubscribe ==
  (ev.op = "subscribe" /\ ev.val # UNDEF) => ev.c \in ev.notified

\* C7 as first stated: after setCacheData(key, v) the cache holds v and every
\* subscribed consumer whose fetchState is done has data = v.
C7_WriteReachesAll ==
  ev.op = "write" =>
    /\ cacheData[ev.key] = ev.val
    /\ \A c \in cacheSubscribers[ev.key] :
         state[c].fetchState = "done" => state[c].data = ev.val

\* C7: after setCacheData(key, v) the cache holds v; when the stored value was
\* not already identical to v, every subscribed consumer whose fetchState is
\* done has data equal to v in serialised form.
C7_WriteReachesAllByValue ==
  ev.op = "write" =>
    /\ cacheData[ev.key] = ev.val
    /\ ev.performed =>
         \A c \in cacheSubscribers[ev.key] :
           state[c].fetchState = "done"
             => stringifyIfNeeded(state[c].data) = stringifyIfNeeded(ev.val)

\* an updater write replaced the value a subscribed consumer had fetched
C7_Witness ==
  /\ ev.op = "write" /\ ev.performed /\ ev.val = "b"
  /\ \E c \in cacheSubscribers[ev.key] :
       /\ c \in ev.notified
       /\ hist[c].net = 1
       /\ state[c].fetchState = "done" /\ state[c].data = ev.val

\* this step is the first render of consumer c
Mounts(c, policy, key) ==
  /\ phase[c] = "unmounted" /\ phase'[c] = "rendered"
  /\ cfg'[c] = [policy |-> policy, lazy |-> FALSE, key |-> key]

Primed(key) ==
  /\ ev.op = "write" /\ ev.key = key
  /\ \A d \in Consumers : phase[d] = "unmounted"

ErrorAnswered(c, i) ==
  /\ clients[c][i].inflight /\ ~clients'[c][i].inflight
  /\ clients'[c][i].data = ABSENT

\* C12: after a call that fails with a transport or GraphQL error, the
\* consumer has fetchState error with errors populated and its data is still
\* the value it held from the previous successful call.
C12_ErrorKeepsData ==
  [][\A c \in Consumers : \A i \in 1..Len(clients[c]) :
       (ErrorAnswered(c, i) /\ phase[c] # "dismounted" /\ state[c].data \in ServerValues)
         => /\ state'[c].fetchState = "error"
            /\ state'[c].errors = GqlErrors
            /\ state'[c].data = state[c].data]_vars

\* C13: a loading dispatch on a state whose fetchState is loading yields a
\* state equal to the prior one: data and errors are unchanged.
C13_LoadingIdempotent ==
  [][(ev'.op = "loading" /\ state[ev'.c].fetchState = "loading")
       => state'[ev'.c] = state[ev'.c]]_vars

\* loading was dispatched on a loading state that holds data
C13_Witness ==
  /\ ev.op = "loading"
  /\ state[ev.c].fetchState = "loading" /\ state[ev.c].data = "a"
  /\ stateRef[ev.c] = state[ev.c]

Registers(c, id) == hookId[c] = NoId /\ hookId'[c] = id

\* C15: registering a consumer under an id that is already in the pool prints
\* exactly one diagnostic in a non-production build and none in a production
\* build; registering under a free id prints none; in every case the
\* registration succeeds and the entry is the new consumer.
C15_DuplicateIdDiagnostic ==
  [][\A c \in Consumers : \A id \in HookIds :
       Registers(c, id) =>
         /\ hooksPool'[id] = c
         /\ warnings' = IF hooksPool[id] # NoHook /\ ~production
                         THEN warnings + 1 ELSE warnings]_vars

\* two consumers are registered under the same id in a development build
C15_Witness ==
  \E c, d \in Consumers : \E id \in HookIds :
    /\ c # d /\ hookId[c] = id /\ hookId[d] = id
    /\ hooksPool[id] = d
    /\ ~production /\ warnings = 1

\* the scenario of C8: only the mount invocation, no timeout and no error
C8_Scenario(c) ==
  /\ phase[c] # "unmounted"
  /\ cfg[c].policy = "cache-first" /\ ~cfg[c].lazy /\ cfg[c].key = NoKey
  /\ hist[c].runs = 1 /\ hist[c].clean

\* C8: a non-lazy cache-first consumer without a cached value, on which no
\* other invocation, timeout or error happens, goes from loading to done and
\* nowhere else, and is done after exactly one transport call.
C8_LoadingThenDone ==
  /\ [](\A c \in Consumers :
          C8_Scenario(c) =>
            /\ state[c].fetchState \in {"loading", "done"}
            /\ state[c].fetchState = "loading" => hist[c].net <= 1 /\ Len(runs[c]) = 1
            /\ state[c].fetchState = "done" => hist[c].net = 1 /\ runs[c] = <<>>)
  /\ [][\A c \in Consumers :
          (C8_Scenario(c) /\ C8_Scenario(c)' /\ state'[c].fetchState # state[c].fetchState)
            => state[c].fetchState = "loading" /\ state'[c].fetchState = "done"]_vars

C8_Witness ==
  \E c \in Consumers :
    /\ C8_Scenario(c)
    /\ state[c].fetchState = "done" /\ state[c].data \in ServerValues
    /\ hist[c].net = 1

\* -------------------------------------------------------------- fetchMore
\* a step in which consumer c calls fetchMore
CallsFetchMore(c) == more[c].stage # "fetching" /\ more'[c].stage = "fetching"

\* a step in which the fetchMore call of consumer c settles
SettlesFetchMore(c) == more[c].stage = "fetching" /\ more'[c].stage = "settled"

\* C16: fetchMore hands the merge function the value the consumer held before
\* the call and the fetched page, dispatches done with what the function
\* returns and resolves to it; with fetchMoreResult ?? previousResult the
\* final data is the fetched page whenever that page is not null
C16_FetchMoreMerges ==
  [][\A c \in Consumers :
       /\ CallsFetchMore(c) => more'[c].previous = state[c].data
       /\ SettlesFetchMore(c) =>
            /\ more'[c].args[1] = more[c].previous
            /\ state'[c].fetchState = "done"
            /\ state'[c].data = updateQuery(more[c].updateQuery, more'[c].args[1],
                                            more'[c].args[2])
            /\ more'[c].resolved = state'[c].data
            /\ (more[c].updateQuery = "newOrPrevious" /\ more'[c].args[2] # NULL)
                 => state'[c].data = more'[c].args[2]]_vars

\* a fetchMore call that folded two different pages has settled
C16_Witness ==
  \E c \in Consumers :
    /\ more[c].stage = "settled"
    /\ more[c].updateQuery = "union"
    /\ more[c].args = <<"a", "o1">>
    /\ state[c].data = BothPages

\* C17: from a fetchMore call with notifyLoading = false on a consumer that
\* is done until the merged result is dispatched, fetchState is done
C17_QuietFetchMoreStaysDone ==
  \A c \in Consumers :
    (more[c].stage \in {"fetching", "settled"} /\ ~more[c].notifyLoading /\ more[c].wasDone)
      => state[c].fetchState = "done"

\* a quiet fetchMore call is in flight on a consumer that was done
C17_Witness ==
  \E c \in Consumers :
    /\ more[c].stage = "fetching"
    /\ ~more[c].notifyLoading
    /\ more[c].wasDone
    /\ state[c].fetchState = "done"

\* ---------------------------------------------------------------- polling
\* the suspended invocations of consumer c that a tick started
PollRuns(c) ==
  {k \in 1..Len(runs[c]) : runs[c][k].client \in pollClients[c]}

\* a step in which the timer of consumer c fires
Ticks(c) == ev'.op = "tick" /\ ev'.c = c

\* C19: a tick that fires while an invocation of the consumer is suspended
\* starts no invocation, and at most one invocation started by a tick is
\* suspended at any time
C19_TickSkipsWhileInFlight ==
  /\ [](\A c \in Consumers : Cardinality(PollRuns(c)) <= 1)
  /\ [][\A c \in Consumers : (Ticks(c) /\ runs[c] # <<>>) => runs'[c] = runs[c]]_vars

\* C20: the timer of a consumer that is unmounted, or whose poll interval is
\* 0 or unset, is cleared, and no tick of it invokes the fetch callback
C20_NoTickAfterTeardown ==
  /\ [](\A c \in Consumers :
          (phase[c] = "dismounted" \/ pollInterval[c] = 0) => ~timer[c])
  /\ [][\A c \in Consumers :
          (phase[c] = "dismounted" \/ pollInterval[c] = 0)
            => ~(Ticks(c) /\ ev'.performed)]_vars

\* a consumer was unmounted after a tick of its timer started an invocation
C20_Witness ==
  \E c \in Consumers :
    /\ phase[c] = "dismounted"
    /\ pollInterval[c] > 0
    /\ pollClients[c] # {}
    /\ ~timer[c]

\* ---------------------------------------------------------------- timeout
\* a step in which the timer of a suspended invocation of consumer c fires
\* before the transport has answered
TimesOut(c) == ev'.op = "timeout" /\ ev'.c = c

\* C11: the promise of an explicit callback invocation, of a query or of a
\* mutation, whose timer fires before the answer rejects
C11_TimeoutRejects ==
  [][\A c \in Consumers : (TimesOut(c) /\ cfg[c].lazy) => ev'.settled = "rejected"]_vars

\* the mutation callback on its own: its promise rejects when its timer fires
C11_MutationTimeoutRejects ==
  [][\A c \in Consumers :
       (TimesOut(c) /\ cfg[c].policy = "mutation")
         => /\ ev'.settled = "rejected"
            /\ state'[c] = state[c]]_vars

\* ------------------------------------------------------------ the reducer
\* the serialized form by which two payloads are compared
SameByValue(x, y) ==
  \/ x = y
  \/ {x, y} \subseteq {UNDEF, NULL}
  \/ {x, y} \subseteq {"o1", "o2"}

\* C28: a done dispatch on a state that is error with data equal by value to
\* the payload returns the state unchanged; every other done dispatch yields
\* fetchState done, called true and data = payload
C28_DoneReducer ==
  [][ev'.op = "done" =>
       IF state[ev'.c].fetchState = "error" /\ SameByValue(ev'.val, state[ev'.c].data)
       THEN state'[ev'.c] = state[ev'.c]
       ELSE /\ state'[ev'.c].fetchState = "done"
            /\ state'[ev'.c].called
            /\ state'[ev'.c].data = ev'.val]_vars

\* a done dispatch whose payload is another reference with the same
\* serialized form has left a consumer in error
C28_Witness ==
  /\ ev.op = "done" /\ ev.val = "o2"
  /\ state[ev.c].fetchState = "error" /\ state[ev.c].data = "o1"

\* C29: a setData dispatch changes only data: fetchState, called and errors
\* stay as they were in the reducer state and in stateRef.current
C29_SetDataOnlyData ==
  [][ev'.op = "setData" =>
       /\ state'[ev'.c] = [state[ev'.c] EXCEPT !.data = ev'.val]
       /\ stateRef'[ev'.c] = [stateRef[ev'.c] EXCEPT !.data = ev'.val]]_vars

\* ---------------------------------------------------------- deduplication
\* this step is an invocation under a cache-consuming policy that finds
\* accessors of the active client of consumer c pending
FindsFetchPending(c) ==
  /\ \E policy \in {"cache-first", "cache-and-network"} : Invokes(c, policy)
  /\ Current(c).pending # {}

\* this step is the answer, with data, to the one call of client i on which
\* two or more invocations of consumer c wait
AnswersJoined(c, i) ==
  /\ clients[c][i].inflight /\ ~clients'[c][i].inflight
  /\ clients'[c][i].data # ABSENT
  /\ Len(OnClient(runs[c], i)) >= 2

\* C30: an invocation under cache-first or cache-and-network that finds a
\* fetch pending on the active client waits on that client and causes no
\* transport call and no new client; the one answer ends all the invocations
\* that wait on the client, with the same value, and leaves nothing to fetch
C30_JoinsPendingFetch ==
  /\ [][\A c \in Consumers :
          FindsFetchPending(c) =>
            /\ clients'[c] = [clients[c] EXCEPT ![Len(clients[c])].pending =
                                                  @ \cup {optPolicy'[c]},
                                                ![Len(clients[c])].watched = TRUE]
            /\ hist'[c].net = hist[c].net
            /\ Len(runs'[c]) = Len(runs[c]) + 1
            /\ runs'[c][Len(runs'[c])].client = Len(clients[c])
            /\ state'[c] = state[c]]_vars
  /\ [][\A c \in Consumers : \A i \in 1..Len(clients[c]) :
          AnswersJoined(c, i) =>
            /\ OnClient(runs'[c], i) = <<>>
            /\ clients'[c][i].pending = {}
            /\ hist'[c].net = hist[c].net
            /\ state'[c].data = clients'[c][i].data]_vars

\* two invocations wait on one client whose single call is in flight
C30_Witness ==
  \E c \in Consumers : \E i \in 1..Len(clients[c]) :
    /\ Len(OnClient(runs[c], i)) = 2
    /\ clients[c][i].inflight
    /\ hist[c].net = 1
    /\ hist[c].clean

\* ---------------------------------------------------------------- unmount
\* C26: no dispatch reaches a consumer that has been unmounted: neither its
\* reducer state nor stateRef.current change any more
C26_NoDispatchAfterUnmount ==
  [][\A c \in Consumers :
       phase[c] = "dismounted"
         => state'[c] = state[c] /\ stateRef'[c] = stateRef[c]]_vars

\* ------------------------------------------------- the order of dispatches
\* this step is the fetcher call for client i of the mounted consumer c that
\* dispatches loading
DispatchesLoading(c, i) ==
  /\ ~clients[c][i].inflight /\ clients'[c][i].inflight
  /\ phase[c] # "dismounted"
  /\ state[c].fetchState # "loading" /\ state'[c].fetchState = "loading"

\* the k-th suspended invocation of consumer c has dispatched setData
HasPushed(c, k) == PushesCached(runs[c][k].policy) /\ runs[c][k].newClient

\* the loading dispatch of the fetch an invocation waits for does not follow
\* the setData dispatch of that invocation
LoadingBeforeSetData ==
  [][\A c \in Consumers : \A i \in 1..Len(clients[c]) :
       DispatchesLoading(c, i)
         => \A k \in 1..Len(runs[c]) : runs[c][k].client = i => ~HasPushed(c, k)]_vars

\* an invocation whose fetch is answered with errors ends with the error
\* dispatch, without a done dispatch after it
ErrorEndsRun ==
  [][\A c \in Consumers : \A i \in 1..Len(clients[c]) :
       (ErrorAnswered(c, i) /\ phase[c] # "dismounted" /\ OnClient(runs[c], i) # <<>>)
         => state'[c].fetchState = "error"]_vars

\* C25: the dispatches of one invocation come in the order loading, setData,
\* then done or error, each at most once: loading is not dispatched after
\* setData, and done is not dispatched after error
C25_DispatchOrder == LoadingBeforeSetData /\ ErrorEndsRun

\* ------------------------------------------------------------------- lazy
\* the lazy consumer c has rendered and no callback was invoked on it so far
Untriggered(c) ==
  cfg[c].lazy /\ phase[c] \in {"rendered", "mounted"} /\ hist[c].runs = 0

\* this step is the explicit callback of the mounted consumer c
Triggers(c) ==
  /\ phase[c] = "mounted" /\ hist'[c].runs = hist[c].runs + 1
  /\ \A d \in Consumers \ {c} : hist'[d] = hist[d] /\ phase'[d] = phase[d]
  /\ ev'.op = "run" /\ nWrites' = nWrites

\* this step is the first render of the non-lazy consumer c
MountsEager(c) ==
  phase[c] = "unmounted" /\ phase'[c] = "rendered" /\ ~cfg'[c].lazy

C27_SubscribedUnderOwnKey ==
  \A c \in Consumers : \A k \in AllKeys :
    c \in cacheSubscribers[k] <=> (phase[c] = "mounted" /\ cfg[c].key = k)

\* a consumer whose id has just changed is subscribed under k2, next to
\* another consumer, and no longer under k1, where a fetch has stored a value
C27_Witness ==
  \E c, d \in Consumers :
    /\ c # d
    /\ ev.op = "resubscribe" /\ ev.c = c /\ ev.key = "k2"
    /\ c \in cacheSubscribers["k2"] /\ c \notin cacheSubscribers["k1"]
    /\ d \in cacheSubscribers["k2"]
    /\ cacheData["k1"] # UNDEF

\* ------------------------------------------------- mutations and the cache
\* this step is the answer with data to the call of client i of the mutation
\* hook m, whose callback waits for it
MutationCompletes(m, i) ==
  /\ cfg[m].policy = "mutation"
  /\ clients[m][i].inflight /\ ~clients'[m][i].inflight
  /\ clients'[m][i].data # ABSENT
  /\ OnClient(runs[m], i) # <<>>

\* what holds for the mutation itself and for the cache when the callback of
\* a mutation with a shared cache id ends with the data of its answer
MutationWrites(m, i) ==
  LET result == clients'[m][i].data IN
  /\ state'[m].fetchState = "done" /\ state'[m].data = result
  /\ cacheData'[KeyOf(m)] = result
  /\ ev'.setter = NoFn
  /\ cacheData[KeyOf(m)] # result => ev'.notified = cacheSubscribers[KeyOf(m)]

\* the mounted query consumers of the mutation's id that are done afterwards
DoneQueriesOf(m) ==
  {q \in Consumers : /\ phase[q] = "mounted" /\ cfg[q].policy # "mutation"
                     /\ cfg[q].key = KeyOf(m) /\ state'[q].fetchState = "done"}

Skipped(c) == skip[c] /\ phase[c] # "unmounted"

\* the render that ends the skipping of a cache-first consumer whose shared
\* cache id holds a value
UnskipsOnCache(c) ==
  /\ skip[c] /\ ~skip'[c]
  /\ cfg[c].policy = "cache-first"
  /\ KeyOf(c) # NoKey /\ cacheData[KeyOf(c)] # UNDEF

Commits(c) == rendered'[c] # rendered[c]

\* C21: whenever a consumer renders a new state that is done, be it after a
\* fetch, after a cache update pushed to it or after setData, onCompleted
\* is called once more and receives the data of that state
C21_OnCompletedOnEverySuccess ==
  [][\A c \in Consumers :
       (Commits(c) /\ state[c].fetchState = "done") =>
         completed'[c] = [n |-> completed[c].n + 1, data |-> state[c].data]]_vars

\* onCompleted is called, with the data of the state, whenever a consumer
\* renders done after a render that was not done (or at mount), and by
\* nothing else
OnCompletedWhenBecomingDone ==
  [][\A c \in Consumers :
       /\ (Commits(c) /\ state[c].fetchState = "done"
             /\ rendered[c].fetchState # "done") =>
            completed'[c] = [n |-> completed[c].n + 1, data |-> state[c].data]
       /\ ~Commits(c) => completed'[c] = completed[c]]_vars


\* the step is a call of setCacheData with the value the key holds already
WritesStored == ev'.op \in {"write", "rewrite"} /\ cacheData[ev'.key] = ev'.val

\* C31: a setCacheData call with the value the key holds already changes
\* neither the store nor any consumer and invokes no subscriber; a call
\* that repeats the call before it is such a call, so of two equal writes
\* in a row only the first invokes the subscribers, each of them once
C31_UnchangedWriteIsNoOp ==
  /\ [][WritesStored =>
          /\ cacheData' = cacheData /\ cacheSubscribers' = cacheSubscribers
          /\ state' = state /\ stateRef' = stateRef
          /\ ev'.notified = {} /\ ~ev'.performed]_vars
  /\ [][ev'.op = "rewrite" =>
          /\ WritesStored
          /\ ev.performed => ev.notified = cacheSubscribers[ev.key]]_vars

\* a write that reached a subscribed consumer was repeated
C31_Witness ==
  /\ ev.op = "rewrite" /\ ev.val = "o2" /\ ev.notified = {}
  /\ cacheSubscribers[ev.key] = {1, 2}
  /\ \A c \in Consumers : state[c].fetchState = "done" /\ state[c].data = "o2"


\* C32: a call of a disposer takes exactly its own function out of the
\* subscribers of its key, whenever and however often it is called
C32_DisposerRemovesOnlyOwn ==
  [][ev'.op = "dispose" =>
       cacheSubscribers'[ev'.key] = cacheSubscribers[ev'.key] \ {ev'.c}]_vars

\* as long as no disposer has been called twice, a call of a disposer takes
\* exactly its own function out of the subscribers of its key
C32_SingleDisposalRemovesOnlyOwn ==
  [][(ev'.op = "dispose" /\ \A d \in 1..Len(subHeld) : subHeld'[d].calls <= 1) =>
       cacheSubscribers'[ev'.key] = cacheSubscribers[ev'.key] \ {ev'.c}]_vars

\* what query(client.query, variables) returns against client i of consumer c
Reads(c, i) == IF clients[c][i].data # ABSENT THEN clients[c][i].data ELSE NULL

\* C33: when the timer of a suspended invocation that a mount or a polling
\* tick started fires first, the promise of the invocation resolves and
\* done is dispatched with the value the selector reads at that moment
C33_TimeoutAbsorbed ==
  [][\A c \in Consumers : TimesOut(c) =>
       /\ ev'.settled = "resolved"
       /\ Len(runs'[c]) = Len(runs[c]) - 1
       /\ \E k \in 1..Len(runs[c]) :
            state'[c] = StateReducer(state[c], stateRef[c], "done",
                                     Reads(c, runs[c][k].client)).st]_vars

\* the timer of an invocation that a polling tick started has fired and
\* left the consumer done with what the selector read
C33_Witness ==
  /\ ev.op = "timeout" /\ ev.c = 1 /\ ev.settled = "resolved"
  /\ ~cfg[1].lazy /\ pollClients[1] # {} /\ hist[1].runs >= 2
  /\ runs[1] = <<>>
  /\ state[1].fetchState = "done" /\ state[1].data = NULL


\* C34: when the body of the answer is not JSON, the fetch executor calls
\* the error effect and throws the parse error to its caller, and no error
\* dispatch puts anything into the consumer's errors
C34_ParseErrorRethrown ==
  [][ev'.op = "garbled" =>
       /\ ev'.val = "onErrorEffect"
       /\ ev'.settled = "thrown"
       /\ ~ev'.performed]_vars


\* C35: a change of the cache starts the cache-only re-read of a consumer
\* exactly when no fetch of the consumer is in flight and the consumer, if
\* it is lazy, has been called
C35_RereadOnlyWhenIdle ==
  [][\A c \in Consumers : (ev'.op = "changed" /\ ev'.c = c) =>
       (ev'.performed <=>
          (~isFetching[c] /\ (cfg[c].lazy => stateRef[c].called)))]_vars

\* a change of the cache starts nothing on a lazy consumer that has not
\* been called and whose fetch flag is clear
C35_UncalledLazyStartsNothing ==
  [][\A c \in Consumers :
       (ev'.op = "changed" /\ ev'.c = c /\ ~isFetching[c] /\ cfg[c].lazy
        /\ ~stateRef[c].called) =>
         ~ev'.performed /\ hist'[c] = hist[c] /\ state'[c] = state[c]]_vars


\* C36: in every reducer state errors are present only while fetchState is
\* error: the loading and done cases return a state without errors and
\* the setData case keeps the errors of the state it is applied to
C36_ErrorsOnlyInError ==
  /\ [](\A c \in Consumers : state[c].errors # NoErrors => state[c].fetchState = "error")
  /\ [][\A c \in Consumers :
          /\ (ev'.c = c /\ ev'.op = "loading") => state'[c].errors = NoErrors
          /\ (ev'.c = c /\ ev'.op = "done" /\ state'[c].fetchState = "done")
               => state'[c].errors = NoErrors
          /\ (ev'.c = c /\ ev'.op = "setData") =>
               /\ state'[c].errors = state[c].errors
               /\ state'[c].fetchState = state[c].fetchState]_vars

\* loading was dispatched on a state that carried errors
C36_Witness ==
  \E c \in Consumers :
    /\ ev.op = "loading" /\ ev.c = c
    /\ state[c].fetchState = "loading" /\ state[c].errors = NoErrors
    /\ stateRef[c].errors = GqlErrors

\* C37: after every dispatch the snapshot stateRef.current agrees with the
\* reducer state on fetchState, called, data and errors
C37_SnapshotAgrees ==
  \A c \in Consumers : phase[c] = "rendered" => stateRef[c] = state[c]

\* C38: the pool holds an entry under an id exactly when a consumer that
\* registered under the id has not unregistered yet, the entry is that of
\* such a consumer, and the disposer of one consumer never takes away the
\* entry of another
C38_PoolEntryWhileRegistered ==
  /\ [](\A id \in HookIds :
          /\ hooksPool[id] # NoHook <=> \E c \in Consumers : hookId[c] = id
          /\ hooksPool[id] # NoHook => hookId[hooksPool[id]] = id)
  /\ [][\A id \in HookIds :
          (hooksPool[id] # NoHook /\ hooksPool'[id] = NoHook)
            => hookId'[hooksPool[id]] = NoId]_vars


\* this step is the fetcher call for the pending accessors of client i
FetcherCalled(c, i) ==
  /\ clients[c][i].pending # {} /\ ~clients[c][i].inflight
  /\ clients'[c][i].inflight \/ ShortCircuited(c, i)

\* C40: the policy of an invocation is the one it started with: when the
\* fetcher is called for the client a network-only, no-cache or
\* cache-and-network invocation built, the transport is called, whatever
\* invocations or renders came between
C40_PolicyFixedAtStart ==
  [][\A c \in Consumers : \A i \in 1..Len(clients[c]) :
       (FetcherCalled(c, i)
        /\ \E k \in 1..Len(runs[c]) :
             /\ runs[c][k].client = i /\ runs[c][k].newClient
             /\ ForcesNetwork(runs[c][k].policy))
         => clients'[c][i].inflight /\ clients'[c][i].net]_vars


\* C39: a consumer that is loading is later done or in error, unless it
\* was unmounted in between
C39_LoadingEnds ==
  (state[1].fetchState = "loading")
    ~> (state[1].fetchState \in {"done", "error"} \/ phase[1] = "dismounted")


====
